---------------------------- MODULE Spec2Model ----------------------------
(***************************************************************************)
(* DocStratum schema: the diagnostic code catalog (diagnostics.py) and the *)
(* schema constants (constants.py), with the reads a caller performs on    *)
(* them.  Text is modelled as TLA+ strings, read character by character    *)
(* with SubSeq, so that strip, split, lower and int are computed as the    *)
(* Python built-ins compute them.                                          *)
(***************************************************************************)
EXTENDS Integers, Sequences, FiniteSets, TLC

VARIABLES
  op,   \* the last operation performed on the schema ("import" at start)
  arg,  \* its argument
  ret   \* its outcome: the value returned or the exception raised

vars == <<op, arg, ret>>

---------------------------------------------------------------------------
(* Python str built-ins used by the schema.                                *)

CharAt(s, i) == SubSeq(s, i, i)

Whitespace == {" ", "\t", "\n", "\r", "\f"}

RECURSIVE lstrip(_)
lstrip(s) ==
  IF Len(s) > 0 /\ CharAt(s, 1) \in Whitespace THEN lstrip(Tail(s)) ELSE s

RECURSIVE rstrip(_)
rstrip(s) ==
  IF Len(s) > 0 /\ CharAt(s, Len(s)) \in Whitespace
    THEN rstrip(SubSeq(s, 1, Len(s) - 1))
    ELSE s

\* str.strip(): leading and trailing whitespace removed.
strip(s) == rstrip(lstrip(s))

\* str.startswith(prefix)
startswith(s, prefix) ==
  Len(s) >= Len(prefix) /\ SubSeq(s, 1, Len(prefix)) = prefix

\* s[n:] for n >= 0 (0-based offset n, to the end).
SliceFrom(s, n) == SubSeq(s, n + 1, Len(s))

\* str.split(sep) for a one-character separator: the pieces between the
\* separators, in order; a string without separator is its own only piece.
RECURSIVE split(_, _)
split(s, sep) ==
  LET at == {i \in 1..Len(s) : CharAt(s, i) = sep}
  IN  IF at = {} THEN <<s>>
      ELSE LET i == CHOOSE k \in at : \A j \in at : k <= j
           IN  <<SubSeq(s, 1, i - 1)>> \o split(SubSeq(s, i + 1, Len(s)), sep)

UpperCase == "ABCDEFGHIJKLMNOPQRSTUVWXYZ"
LowerCase == "abcdefghijklmnopqrstuvwxyz"

LowerChar(c) ==
  IF \E i \in 1..Len(UpperCase) : CharAt(UpperCase, i) = c
    THEN CharAt(LowerCase, CHOOSE i \in 1..Len(UpperCase) : CharAt(UpperCase, i) = c)
    ELSE c

\* lower leaving the text as it is.
lower_Unchanged(s) == s

\* str.lower(): every cased character replaced by its lower-case form.
RECURSIVE lower(_)
lower(s) == IF Len(s) = 0 THEN s ELSE LowerChar(CharAt(s, 1)) \o lower(Tail(s))

Digits == "0123456789"

IsDigit(c) == \E i \in 1..Len(Digits) : CharAt(Digits, i) = c

DigitValue(c) == (CHOOSE i \in 1..Len(Digits) : CharAt(Digits, i) = c) - 1

RECURSIVE DecimalValue(_, _)
DecimalValue(s, acc) ==
  IF Len(s) = 0 THEN acc
  ELSE DecimalValue(Tail(s), acc * 10 + DigitValue(CharAt(s, 1)))

ValueError == "ValueError"
KeyError == "KeyError"
IndexError == "IndexError"

\* The outcome of a call: the value it returns, or the exception it raises.
Return(v) == [raised |-> "", value |-> v]
Raise(e) == [raised |-> e, value |-> "None"]

\* int(s): surrounding whitespace and one sign are accepted, then decimal
\* digits only; anything else raises ValueError.
int(s) ==
  LET t == strip(s)
      signed == Len(t) > 0 /\ CharAt(t, 1) \in {"+", "-"}
      d == IF signed THEN Tail(t) ELSE t
  IN  IF Len(d) = 0 \/ \E i \in 1..Len(d) : ~IsDigit(CharAt(d, i))
        THEN Raise(ValueError)
        ELSE IF signed /\ CharAt(t, 1) = "-"
               THEN Return(0 - DecimalValue(d, 0))
               ELSE Return(DecimalValue(d, 0))

---------------------------------------------------------------------------
(* diagnostics.py                                                          *)

ERROR == "ERROR"
WARNING == "WARNING"
INFO == "INFO"

\* class Severity(StrEnum)
Severity == {ERROR, WARNING, INFO}

\* The backtick character, which a string literal cannot hold on its own.
Backtick == CharAt("`'", 1)

\* The class body of DiagnosticCode: each assignment NAME = (value, doc), in
\* declaration order, with the docstring exactly as written in the source.
DiagnosticCodeDecl ==
  <<
    [name |-> "E001_NO_H1_TITLE", value |-> "E001",
     doc |-> "No H1 title found. Every llms.txt file MUST begin with exactly one H1 title.\n        Maps to: STR-001 (v0.0.4a). Severity: ERROR.\n        Remediation: Add a single '# Title' as the first line of the file."],
    [name |-> "E002_MULTIPLE_H1", value |-> "E002",
     doc |-> "Multiple H1 titles found. The spec requires exactly one H1.\n        Maps to: STR-001 (v0.0.4a). Severity: ERROR.\n        Remediation: Remove all but the first H1 title. Use H2 for section headers."],
    [name |-> "E003_INVALID_ENCODING", value |-> "E003",
     doc |-> "File is not valid UTF-8 encoding.\n        Maps to: ENC-001 (v0.0.4a). Severity: ERROR.\n        Remediation: Convert the file to UTF-8 encoding. Remove any BOM markers."],
    [name |-> "E004_INVALID_LINE_ENDINGS", value |-> "E004",
     doc |-> "File uses non-LF line endings (CR or CRLF detected).\n        Maps to: ENC-002 (v0.0.4a). Severity: ERROR.\n        Remediation: Convert line endings to LF (Unix-style). Most editors have this option."],
    [name |-> "E005_INVALID_MARKDOWN", value |-> "E005",
     doc |-> "File contains invalid Markdown syntax that prevents parsing.\n        Maps to: MD-001 (v0.0.4a). Severity: ERROR.\n        Remediation: Fix Markdown syntax errors. Use a Markdown linter to identify issues."],
    [name |-> "E006_BROKEN_LINKS", value |-> "E006",
     doc |-> "Section contains links with empty or malformed URLs.\n        Maps to: LNK-002 (v0.0.4a), CHECK-004 (v0.0.4c Ghost File anti-pattern). Severity: ERROR.\n        Remediation: Fix or remove links with empty href values. Ensure all URLs are well-formed."],
    [name |-> "E007_EMPTY_FILE", value |-> "E007",
     doc |-> "File is empty or contains only whitespace.\n        Maps to: CHECK-001 (v0.0.4c Ghost File anti-pattern). Severity: ERROR.\n        Remediation: Add content to the file. At minimum: H1 title, blockquote, one H2 section."],
    [name |-> "E008_EXCEEDS_SIZE_LIMIT", value |-> "E008",
     doc |-> "File exceeds the maximum recommended size (>100K tokens).\n        Maps to: SIZ-003 (v0.0.4a), CHECK-003 (v0.0.4c Monolith Monster). Severity: ERROR.\n        Remediation: Decompose into a tiered file strategy (index + full + per-section files)."],
    [name |-> "W001_MISSING_BLOCKQUOTE", value |-> "W001",
     doc |-> "No blockquote description found after the H1 title.\n        Maps to: STR-002 (v0.0.4a). Severity: WARNING.\n        Note: 55% real-world compliance (v0.0.2 enrichment), so this is a warning, not an error.\n        Remediation: Add a '> description' blockquote immediately after the H1 title."],
    [name |-> "W002_NON_CANONICAL_SECTION_NAME", value |-> "W002",
     doc |-> "Section name does not match any of the 11 canonical names.\n        Maps to: NAM-001 (v0.0.4a). Severity: WARNING.\n        Remediation: Use canonical names where possible (see CanonicalSectionName enum)."],
    [name |-> "W003_LINK_MISSING_DESCRIPTION", value |-> "W003",
     doc |-> "Link entry has no description text (bare URL only).\n        Maps to: CNT-004 (v0.0.4b), CHECK-010 (v0.0.4c Link Desert). Severity: WARNING.\n        Remediation: Add a description after the link: '- [Title](url): Description of the page'."],
    [name |-> "W004_NO_CODE_EXAMPLES", value |-> "W004",
     doc |-> "File contains no code examples (no fenced code blocks found).\n        Maps to: CNT-007 (v0.0.4b). Severity: WARNING.\n        Note: Code examples are the strongest quality predictor (r ~ 0.65, v0.0.2c).\n        Remediation: Add code examples with language specifiers (" \o Backtick \o Backtick \o Backtick \o "python, "
               \o Backtick \o Backtick \o Backtick \o "bash, etc.)."],
    [name |-> "W005_CODE_NO_LANGUAGE", value |-> "W005",
     doc |-> "Code block found without a language specifier.\n        Maps to: CNT-008 (v0.0.4b). Severity: WARNING.\n        Remediation: Add a language identifier after the opening triple backticks."],
    [name |-> "W006_FORMULAIC_DESCRIPTIONS", value |-> "W006",
     doc |-> "Multiple sections use identical or near-identical description patterns.\n        Maps to: CNT-005 (v0.0.4b), CHECK-015 (v0.0.4c Formulaic Description). Severity: WARNING.\n        Remediation: Write unique, specific descriptions for each section."],
    [name |-> "W007_MISSING_VERSION_METADATA", value |-> "W007",
     doc |-> "No version or last-updated metadata found in the file.\n        Maps to: CNT-015 (v0.0.4b). Severity: WARNING.\n        Remediation: Add version metadata (e.g., 'Last updated: 2026-02-06')."],
    [name |-> "W008_SECTION_ORDER_NON_CANONICAL", value |-> "W008",
     doc |-> "Sections do not follow the canonical 10-step ordering.\n        Maps to: STR-004 (v0.0.4a). Severity: WARNING.\n        Remediation: Reorder sections to match canonical sequence (see v0.0.4a §6)."],
    [name |-> "W009_NO_MASTER_INDEX", value |-> "W009",
     doc |-> "No Master Index found as the first H2 section.\n        Maps to: STR-003 (v0.0.4a), DECISION-010. Severity: WARNING.\n        Note: Files with Master Index achieve 87% vs. 31% LLM success rate.\n        Remediation: Add a Master Index as the first H2 section with navigation links."],
    [name |-> "W010_TOKEN_BUDGET_EXCEEDED", value |-> "W010",
     doc |-> "File exceeds the recommended token budget for its tier.\n        Maps to: SIZ-001 (v0.0.4a), DECISION-013. Severity: WARNING.\n        Remediation: Trim content to stay within the tier's token budget."],
    [name |-> "W011_EMPTY_SECTIONS", value |-> "W011",
     doc |-> "One or more sections contain no meaningful content (placeholder text only).\n        Maps to: CHECK-011 (v0.0.4c Blank Canvas anti-pattern). Severity: WARNING.\n        Remediation: Add content or remove empty sections. Placeholder sections waste tokens."],
    [name |-> "I001_NO_LLM_INSTRUCTIONS", value |-> "I001",
     doc |-> "No LLM Instructions section found.\n        Maps to: CNT-010 (v0.0.4b). Severity: INFO.\n        Note: 0% current adoption (v0.0.2), but strongest quality differentiator.\n        Remediation: Add an LLM Instructions section with positive/negative directives."],
    [name |-> "I002_NO_CONCEPT_DEFINITIONS", value |-> "I002",
     doc |-> "No structured concept definitions found.\n        Maps to: CNT-013 (v0.0.4b). Severity: INFO.\n        Remediation: Add concept definitions with IDs, relationships, and aliases."],
    [name |-> "I003_NO_FEW_SHOT_EXAMPLES", value |-> "I003",
     doc |-> "No few-shot Q&A examples found.\n        Maps to: v0.0.1b Gap #2 (P0). Severity: INFO.\n        Remediation: Add intent-tagged Q&A pairs linked to concepts."],
    [name |-> "I004_RELATIVE_URLS_DETECTED", value |-> "I004",
     doc |-> "Relative URLs found in link entries (may need resolution).\n        Maps to: LNK-003 (v0.0.4a). Severity: INFO.\n        Remediation: Convert relative URLs to absolute or document the base URL."],
    [name |-> "I005_TYPE_2_FULL_DETECTED", value |-> "I005",
     doc |-> "File classified as Type 2 Full (inline documentation dump, >250 KB).\n        Maps to: Document Type Classification (v0.0.1a enrichment). Severity: INFO.\n        Note: Type 2 files are not spec-conformant but are valid in MCP contexts.\n        Remediation: Consider creating a Type 1 Index companion file."],
    [name |-> "I006_OPTIONAL_SECTIONS_UNMARKED", value |-> "I006",
     doc |-> "Optional sections not explicitly marked with token estimates.\n        Maps to: DECISION-011 (v0.0.4d). Severity: INFO.\n        Remediation: Mark optional sections so consumers can skip them to save context."],
    [name |-> "I007_JARGON_WITHOUT_DEFINITION", value |-> "I007",
     doc |-> "Domain-specific jargon used without inline definition.\n        Maps to: CNT-014 (v0.0.4b). Severity: INFO.\n        Remediation: Define jargon inline or link to a concept definition."]
  >>

\* New with its two arguments taken in the wrong order.
New_SwappedArgs(d) == [name |-> d.name, value |-> d.doc, doc |-> strip(d.value)]

\* DiagnosticCode.__new__: the member keeps its value and the stripped doc.
New(d) == [name |-> d.name, value |-> d.value, doc |-> strip(d.doc)]

\* Enum class creation: members in declaration order; a declaration whose
\* value an earlier member already has becomes an alias of it, not a member.
RECURSIVE EnumMembers(_, _)
EnumMembers(made, acc) ==
  IF made = <<>> THEN acc
  ELSE LET m == Head(made)
       IN  EnumMembers(Tail(made),
             IF \E k \in 1..Len(acc) : acc[k].value = m.value
               THEN acc
               ELSE Append(acc, m))

\* The members of DiagnosticCode, as iteration (for c in DiagnosticCode) and
\* len(DiagnosticCode) see them.
DiagnosticCode ==
  EnumMembers([i \in DOMAIN DiagnosticCodeDecl |-> New(DiagnosticCodeDecl[i])], <<>>)

SeverityByPrefix == [p \in {"E", "W", "I"} |->
                       CASE p = "E" -> ERROR [] p = "W" -> WARNING [] p = "I" -> INFO]

\* severity counting Info codes as warnings.
severity_InfoAsWarning(self) ==
  IF Len(self.value) = 0 THEN Raise(IndexError)
  ELSE LET prefix == CharAt(self.value, 1)
       IN  IF prefix \in DOMAIN SeverityByPrefix
             THEN Return(IF prefix = "I" THEN WARNING ELSE SeverityByPrefix[prefix])
             ELSE Raise(KeyError)

\* severity reading the prefix one character too far (value[1]).
severity_SecondChar(self) ==
  IF Len(self.value) < 2 THEN Raise(IndexError)
  ELSE LET prefix == CharAt(self.value, 2)
       IN  IF prefix \in DOMAIN SeverityByPrefix
             THEN Return(SeverityByPrefix[prefix])
             ELSE Raise(KeyError)

\* DiagnosticCode.severity
severity(self) ==
  IF Len(self.value) = 0 THEN Raise(IndexError)
  ELSE LET prefix == CharAt(self.value, 1)
       IN  IF prefix \in DOMAIN SeverityByPrefix
             THEN Return(SeverityByPrefix[prefix])
             ELSE Raise(KeyError)

\* code_number slicing too far (value[3:]).
code_number_LastDigit(self) == int(SliceFrom(self.value, 3))

\* DiagnosticCode.code_number
code_number(self) == int(SliceFrom(self.value, 1))

\* message without the split into lines.
message_WholeDoc(self) ==
  IF self.doc # "" THEN self.doc
  ELSE "Diagnostic " \o self.value

\* DiagnosticCode.message
message(self) ==
  IF self.doc # "" THEN split(self.doc, "\n")[1]
  ELSE "Diagnostic " \o self.value

NoRemediation == "No remediation available."

\* remediation slicing one character short of the label (stripped[11:]).
remediation_SliceEleven(self) ==
  IF self.doc # ""
    THEN LET lines == split(self.doc, "\n")
             hits == {i \in 1..Len(lines) : startswith(strip(lines[i]), "Remediation:")}
         IN  IF hits # {}
               THEN LET first == CHOOSE i \in hits : \A j \in hits : i <= j
                    IN  strip(SliceFrom(strip(lines[first]), 11))
               ELSE "No remediation available."
    ELSE "No remediation available."

\* DiagnosticCode.remediation
remediation(self) ==
  IF self.doc # ""
    THEN LET lines == split(self.doc, "\n")
             hits == {i \in 1..Len(lines) : startswith(strip(lines[i]), "Remediation:")}
         IN  IF hits # {}
               THEN LET first == CHOOSE i \in hits : \A j \in hits : i <= j
                    IN  strip(SliceFrom(strip(lines[first]), 12))
               ELSE NoRemediation
    ELSE NoRemediation

\* re.compile(r"^[EWI]\d{3}$").match(value): one of E, W, I, then three
\* digits, then the end of the text or a single final line break.
ValuePatternMatch(value) ==
  /\ Len(value) \in {4, 5}
  /\ CharAt(value, 1) \in {"E", "W", "I"}
  /\ \A i \in 2..4 : IsDigit(CharAt(value, i))
  /\ Len(value) = 5 => CharAt(value, 5) = "\n"

---------------------------------------------------------------------------
(* constants.py                                                            *)

\* The class body of CanonicalSectionName, in declaration order.
CanonicalSectionNameDecl ==
  <<
    [name |-> "MASTER_INDEX", value |-> "Master Index"],
    [name |-> "LLM_INSTRUCTIONS", value |-> "LLM Instructions"],
    [name |-> "GETTING_STARTED", value |-> "Getting Started"],
    [name |-> "CORE_CONCEPTS", value |-> "Core Concepts"],
    [name |-> "API_REFERENCE", value |-> "API Reference"],
    [name |-> "EXAMPLES", value |-> "Examples"],
    [name |-> "CONFIGURATION", value |-> "Configuration"],
    [name |-> "ADVANCED_TOPICS", value |-> "Advanced Topics"],
    [name |-> "TROUBLESHOOTING", value |-> "Troubleshooting"],
    [name |-> "FAQ", value |-> "FAQ"],
    [name |-> "OPTIONAL", value |-> "Optional"]
  >>

\* The members of CanonicalSectionName, by attribute name.  A StrEnum member
\* is the string that is its value.
CanonicalSectionName ==
  [n \in {CanonicalSectionNameDecl[i].name : i \in DOMAIN CanonicalSectionNameDecl} |->
     (CHOOSE d \in {CanonicalSectionNameDecl[i] : i \in DOMAIN CanonicalSectionNameDecl} :
        d.name = n).value]

\* The enumeration without its last member.
CanonicalSections_NoOptional ==
  EnumMembers(SubSeq(CanonicalSectionNameDecl, 1, Len(CanonicalSectionNameDecl) - 1), <<>>)

\* The members of CanonicalSectionName as iteration and len() see them.
CanonicalSections == EnumMembers(CanonicalSectionNameDecl, <<>>)

\* isinstance(x, CanonicalSectionName)
IsCanonicalSection(x) == \E i \in DOMAIN CanonicalSections : CanonicalSections[i].value = x

\* A dict built from a literal, given as its <<key, value>> pairs in source
\* order: a later pair replaces the value of an equal earlier key, and the
\* keys keep the order in which they first appear.
DictKeys(pairs) == {pairs[i][1] : i \in DOMAIN pairs}

DictGet(pairs, k) ==
  IF k \in DictKeys(pairs)
    THEN Return(pairs[CHOOSE i \in DOMAIN pairs :
                        /\ pairs[i][1] = k
                        /\ \A j \in DOMAIN pairs : pairs[j][1] = k => j <= i][2])
    ELSE Raise(KeyError)

RECURSIVE DictKeyOrder(_, _)
DictKeyOrder(pairs, acc) ==
  IF pairs = <<>> THEN acc
  ELSE DictKeyOrder(Tail(pairs),
         IF \E k \in DOMAIN acc : acc[k] = Head(pairs)[1]
           THEN acc
           ELSE Append(acc, Head(pairs)[1]))

\* list(d.items())
DictItems(pairs) ==
  LET keys == DictKeyOrder(pairs, <<>>)
  IN  [i \in DOMAIN keys |-> <<keys[i], DictGet(pairs, keys[i]).value>>]

\* list(d.values())
DictValues(pairs) ==
  LET keys == DictKeyOrder(pairs, <<>>)
  IN  [i \in DOMAIN keys |-> DictGet(pairs, keys[i]).value]

\* len(d)
DictLen(pairs) == Cardinality(DictKeys(pairs))

\* sorted(xs) for a list of integers: ascending, duplicates kept.
RECURSIVE InsertSorted(_, _)
InsertSorted(x, xs) ==
  IF xs = <<>> THEN <<x>>
  ELSE IF x <= Head(xs) THEN <<x>> \o xs
  ELSE <<Head(xs)>> \o InsertSorted(x, Tail(xs))

RECURSIVE sorted(_)
sorted(xs) == IF xs = <<>> THEN <<>> ELSE InsertSorted(Head(xs), sorted(Tail(xs)))

SECTION_NAME_ALIASES ==
  <<
    <<"table of contents", CanonicalSectionName.MASTER_INDEX>>,
    <<"toc", CanonicalSectionName.MASTER_INDEX>>,
    <<"index", CanonicalSectionName.MASTER_INDEX>>,
    <<"docs", CanonicalSectionName.MASTER_INDEX>>,
    <<"documentation", CanonicalSectionName.MASTER_INDEX>>,
    <<"instructions", CanonicalSectionName.LLM_INSTRUCTIONS>>,
    <<"agent instructions", CanonicalSectionName.LLM_INSTRUCTIONS>>,
    <<"quickstart", CanonicalSectionName.GETTING_STARTED>>,
    <<"quick start", CanonicalSectionName.GETTING_STARTED>>,
    <<"installation", CanonicalSectionName.GETTING_STARTED>>,
    <<"setup", CanonicalSectionName.GETTING_STARTED>>,
    <<"concepts", CanonicalSectionName.CORE_CONCEPTS>>,
    <<"key concepts", CanonicalSectionName.CORE_CONCEPTS>>,
    <<"fundamentals", CanonicalSectionName.CORE_CONCEPTS>>,
    <<"api", CanonicalSectionName.API_REFERENCE>>,
    <<"reference", CanonicalSectionName.API_REFERENCE>>,
    <<"endpoints", CanonicalSectionName.API_REFERENCE>>,
    <<"usage", CanonicalSectionName.EXAMPLES>>,
    <<"use cases", CanonicalSectionName.EXAMPLES>>,
    <<"tutorials", CanonicalSectionName.EXAMPLES>>,
    <<"recipes", CanonicalSectionName.EXAMPLES>>,
    <<"config", CanonicalSectionName.CONFIGURATION>>,
    <<"settings", CanonicalSectionName.CONFIGURATION>>,
    <<"options", CanonicalSectionName.CONFIGURATION>>,
    <<"advanced", CanonicalSectionName.ADVANCED_TOPICS>>,
    <<"internals", CanonicalSectionName.ADVANCED_TOPICS>>,
    <<"debugging", CanonicalSectionName.TROUBLESHOOTING>>,
    <<"common issues", CanonicalSectionName.TROUBLESHOOTING>>,
    <<"known issues", CanonicalSectionName.TROUBLESHOOTING>>,
    <<"frequently asked questions", CanonicalSectionName.FAQ>>,
    <<"supplementary", CanonicalSectionName.OPTIONAL>>,
    <<"appendix", CanonicalSectionName.OPTIONAL>>,
    <<"extras", CanonicalSectionName.OPTIONAL>>
  >>

\* The ordering with OPTIONAL given the last position.
CANONICAL_SECTION_ORDER_OptionalLast ==
  <<
    <<CanonicalSectionName.MASTER_INDEX, 1>>,
    <<CanonicalSectionName.LLM_INSTRUCTIONS, 2>>,
    <<CanonicalSectionName.GETTING_STARTED, 3>>,
    <<CanonicalSectionName.CORE_CONCEPTS, 4>>,
    <<CanonicalSectionName.API_REFERENCE, 5>>,
    <<CanonicalSectionName.EXAMPLES, 6>>,
    <<CanonicalSectionName.CONFIGURATION, 7>>,
    <<CanonicalSectionName.ADVANCED_TOPICS, 8>>,
    <<CanonicalSectionName.TROUBLESHOOTING, 9>>,
    <<CanonicalSectionName.FAQ, 10>>,
    <<CanonicalSectionName.OPTIONAL, 11>>
  >>

\* The ordering with the ranks of MASTER_INDEX and GETTING_STARTED exchanged.
CANONICAL_SECTION_ORDER_StartFirst ==
  <<
    <<CanonicalSectionName.MASTER_INDEX, 3>>,
    <<CanonicalSectionName.LLM_INSTRUCTIONS, 2>>,
    <<CanonicalSectionName.GETTING_STARTED, 1>>,
    <<CanonicalSectionName.CORE_CONCEPTS, 4>>,
    <<CanonicalSectionName.API_REFERENCE, 5>>,
    <<CanonicalSectionName.EXAMPLES, 6>>,
    <<CanonicalSectionName.CONFIGURATION, 7>>,
    <<CanonicalSectionName.ADVANCED_TOPICS, 8>>,
    <<CanonicalSectionName.TROUBLESHOOTING, 9>>,
    <<CanonicalSectionName.FAQ, 10>>
  >>

\* CANONICAL_SECTION_ORDER, as the pairs of its dict literal.
CANONICAL_SECTION_ORDER ==
  <<
    <<CanonicalSectionName.MASTER_INDEX, 1>>,
    <<CanonicalSectionName.LLM_INSTRUCTIONS, 2>>,
    <<CanonicalSectionName.GETTING_STARTED, 3>>,
    <<CanonicalSectionName.CORE_CONCEPTS, 4>>,
    <<CanonicalSectionName.API_REFERENCE, 5>>,
    <<CanonicalSectionName.EXAMPLES, 6>>,
    <<CanonicalSectionName.CONFIGURATION, 7>>,
    <<CanonicalSectionName.ADVANCED_TOPICS, 8>>,
    <<CanonicalSectionName.TROUBLESHOOTING, 9>>,
    <<CanonicalSectionName.FAQ, 10>>
  >>

\* TokenBudgetTier with the two bounds stored in each other's field.
TokenBudgetTier_SwappedBounds(name, min_tokens, max_tokens, use_case, file_strategy) ==
  [name |-> name, min_tokens |-> max_tokens, max_tokens |-> min_tokens,
   use_case |-> use_case, file_strategy |-> file_strategy]

\* TokenBudgetTier with the use case and the file strategy stored in each
\* other's field.
TokenBudgetTier_StrategyAsUseCase(name, min_tokens, max_tokens, use_case, file_strategy) ==
  [name |-> name, min_tokens |-> min_tokens, max_tokens |-> max_tokens,
   use_case |-> file_strategy, file_strategy |-> use_case]

\* class TokenBudgetTier(NamedTuple)
TokenBudgetTier(name, min_tokens, max_tokens, use_case, file_strategy) ==
  [name |-> name, min_tokens |-> min_tokens, max_tokens |-> max_tokens,
   use_case |-> use_case, file_strategy |-> file_strategy]

\* TOKEN_BUDGET_TIERS, as the pairs of its dict literal.
TOKEN_BUDGET_TIERS ==
  <<
    <<"standard",
      TokenBudgetTier("Standard", 1500, 4500,
                      "Small projects, <100 pages, <5 features",
                      "single")>>,
    <<"comprehensive",
      TokenBudgetTier("Comprehensive", 4500, 12000,
                      "Medium projects, 100-500 pages, 5-20 features",
                      "dual (index + full)")>>,
    <<"full",
      TokenBudgetTier("Full", 12000, 50000,
                      "Large projects, 500+ pages, 20+ features",
                      "multi (master + per-service)")>>
  >>

TOKEN_ZONE_OPTIMAL == 20000
\* TOKEN_ZONE_GOOD typed with one zero too many.
TOKEN_ZONE_GOOD_ExtraZero == 50000 * 10

TOKEN_ZONE_GOOD == 50000
\* TOKEN_ZONE_DEGRADATION typed with one zero too many.
TOKEN_ZONE_DEGRADATION_ExtraZero == 100000 * 10

TOKEN_ZONE_DEGRADATION == 100000
TOKEN_ZONE_ANTI_PATTERN == 500000

\* The class body of AntiPatternCategory, in declaration order.
AntiPatternCategoryDecl ==
  <<
    [name |-> "CRITICAL", value |-> "critical"],
    [name |-> "STRUCTURAL", value |-> "structural"],
    [name |-> "CONTENT", value |-> "content"],
    [name |-> "STRATEGIC", value |-> "strategic"]
  >>

\* The members of AntiPatternCategory, by attribute name.
AntiPatternCategory ==
  [n \in {AntiPatternCategoryDecl[i].name : i \in DOMAIN AntiPatternCategoryDecl} |->
     (CHOOSE d \in {AntiPatternCategoryDecl[i] : i \in DOMAIN AntiPatternCategoryDecl} :
        d.name = n).value]

\* The members of AntiPatternCategory as iteration and len() see them.
AntiPatternCategories == EnumMembers(AntiPatternCategoryDecl, <<>>)

\* The class body of AntiPatternID, in declaration order.
AntiPatternIDDecl ==
  <<
    [name |-> "AP_CRIT_001", value |-> "AP-CRIT-001"],
    [name |-> "AP_CRIT_002", value |-> "AP-CRIT-002"],
    [name |-> "AP_CRIT_003", value |-> "AP-CRIT-003"],
    [name |-> "AP_CRIT_004", value |-> "AP-CRIT-004"],
    [name |-> "AP_STRUCT_001", value |-> "AP-STRUCT-001"],
    [name |-> "AP_STRUCT_002", value |-> "AP-STRUCT-002"],
    [name |-> "AP_STRUCT_003", value |-> "AP-STRUCT-003"],
    [name |-> "AP_STRUCT_004", value |-> "AP-STRUCT-004"],
    [name |-> "AP_STRUCT_005", value |-> "AP-STRUCT-005"],
    [name |-> "AP_CONT_001", value |-> "AP-CONT-001"],
    [name |-> "AP_CONT_002", value |-> "AP-CONT-002"],
    [name |-> "AP_CONT_003", value |-> "AP-CONT-003"],
    [name |-> "AP_CONT_004", value |-> "AP-CONT-004"],
    [name |-> "AP_CONT_005", value |-> "AP-CONT-005"],
    [name |-> "AP_CONT_006", value |-> "AP-CONT-006"],
    [name |-> "AP_CONT_007", value |-> "AP-CONT-007"],
    [name |-> "AP_CONT_008", value |-> "AP-CONT-008"],
    [name |-> "AP_CONT_009", value |-> "AP-CONT-009"],
    [name |-> "AP_STRAT_001", value |-> "AP-STRAT-001"],
    [name |-> "AP_STRAT_002", value |-> "AP-STRAT-002"],
    [name |-> "AP_STRAT_003", value |-> "AP-STRAT-003"],
    [name |-> "AP_STRAT_004", value |-> "AP-STRAT-004"]
  >>

\* The members of AntiPatternID, by attribute name.
AntiPatternID ==
  [n \in {AntiPatternIDDecl[i].name : i \in DOMAIN AntiPatternIDDecl} |->
     (CHOOSE d \in {AntiPatternIDDecl[i] : i \in DOMAIN AntiPatternIDDecl} :
        d.name = n).value]

\* The members of AntiPatternID as iteration and len() see them.
AntiPatternIDs == EnumMembers(AntiPatternIDDecl, <<>>)

\* isinstance(x, AntiPatternID)
IsAntiPatternID(x) == \E i \in DOMAIN AntiPatternIDs : AntiPatternIDs[i].value = x

\* isinstance(x, AntiPatternCategory)
IsAntiPatternCategory(x) ==
  \E i \in DOMAIN AntiPatternCategories : AntiPatternCategories[i].value = x

\* AntiPatternEntry with the id and the name stored in each other's field.
AntiPatternEntry_IdAsName(id, name, category, check_id, description) ==
  [id |-> name, name |-> id, category |-> category,
   check_id |-> check_id, description |-> description]

\* AntiPatternEntry with the check reference and the description stored in
\* each other's field.
AntiPatternEntry_CheckAsDescription(id, name, category, check_id, description) ==
  [id |-> id, name |-> name, category |-> category,
   check_id |-> description, description |-> check_id]

\* AntiPatternEntry with the name and the category stored in each other's
\* field.
AntiPatternEntry_NameAsCategory(id, name, category, check_id, description) ==
  [id |-> id, name |-> category, category |-> name,
   check_id |-> check_id, description |-> description]

\* class AntiPatternEntry(NamedTuple)
AntiPatternEntry(id, name, category, check_id, description) ==
  [id |-> id, name |-> name, category |-> category,
   check_id |-> check_id, description |-> description]

\* ANTI_PATTERN_REGISTRY, the list literal.
ANTI_PATTERN_REGISTRY ==
  <<
    AntiPatternEntry(AntiPatternID.AP_CRIT_001, "Ghost File",
                     AntiPatternCategory.CRITICAL, "CHECK-001",
                     "Empty or near-empty file that exists but provides no value"),
    AntiPatternEntry(AntiPatternID.AP_CRIT_002, "Structure Chaos",
                     AntiPatternCategory.CRITICAL, "CHECK-002",
                     "File lacks recognizable Markdown structure (no headers, no sections)"),
    AntiPatternEntry(AntiPatternID.AP_CRIT_003, "Encoding Disaster",
                     AntiPatternCategory.CRITICAL, "CHECK-003",
                     "Non-UTF-8 encoding or mixed line endings that break parsers"),
    AntiPatternEntry(AntiPatternID.AP_CRIT_004, "Link Void",
                     AntiPatternCategory.CRITICAL, "CHECK-004",
                     "All or most links are broken, empty, or malformed"),
    AntiPatternEntry(AntiPatternID.AP_STRUCT_001, "Sitemap Dump",
                     AntiPatternCategory.STRUCTURAL, "CHECK-005",
                     "Entire sitemap dumped as flat link list with no organization"),
    AntiPatternEntry(AntiPatternID.AP_STRUCT_002, "Orphaned Sections",
                     AntiPatternCategory.STRUCTURAL, "CHECK-006",
                     "Sections with headers but no links or content"),
    AntiPatternEntry(AntiPatternID.AP_STRUCT_003, "Duplicate Identity",
                     AntiPatternCategory.STRUCTURAL, "CHECK-007",
                     "Multiple sections with identical or near-identical names"),
    AntiPatternEntry(AntiPatternID.AP_STRUCT_004, "Section Shuffle",
                     AntiPatternCategory.STRUCTURAL, "CHECK-008",
                     "Sections in illogical order (e.g., Advanced before Getting Started)"),
    AntiPatternEntry(AntiPatternID.AP_STRUCT_005, "Naming Nebula",
                     AntiPatternCategory.STRUCTURAL, "CHECK-009",
                     "Section names that are vague, inconsistent, or non-standard"),
    AntiPatternEntry(AntiPatternID.AP_CONT_001, "Copy-Paste Plague",
                     AntiPatternCategory.CONTENT, "CHECK-010",
                     "Large blocks of content duplicated from other sources without curation"),
    AntiPatternEntry(AntiPatternID.AP_CONT_002, "Blank Canvas",
                     AntiPatternCategory.CONTENT, "CHECK-011",
                     "Sections with placeholder text or no meaningful content"),
    AntiPatternEntry(AntiPatternID.AP_CONT_003, "Jargon Jungle",
                     AntiPatternCategory.CONTENT, "CHECK-012",
                     "Heavy use of domain jargon without definitions"),
    AntiPatternEntry(AntiPatternID.AP_CONT_004, "Link Desert",
                     AntiPatternCategory.CONTENT, "CHECK-013",
                     "Links without descriptions (bare URL lists)"),
    AntiPatternEntry(AntiPatternID.AP_CONT_005, "Outdated Oracle",
                     AntiPatternCategory.CONTENT, "CHECK-014",
                     "Content references deprecated or outdated information"),
    AntiPatternEntry(AntiPatternID.AP_CONT_006, "Example Void",
                     AntiPatternCategory.CONTENT, "CHECK-015",
                     "No code examples despite being a technical project"),
    AntiPatternEntry(AntiPatternID.AP_CONT_007, "Formulaic Description",
                     AntiPatternCategory.CONTENT, "CHECK-019",
                     "Auto-generated descriptions with identical patterns (Mintlify risk)"),
    AntiPatternEntry(AntiPatternID.AP_CONT_008, "Silent Agent",
                     AntiPatternCategory.CONTENT, "CHECK-020",
                     "No LLM-facing guidance despite being an AI documentation file"),
    AntiPatternEntry(AntiPatternID.AP_CONT_009, "Versionless Drift",
                     AntiPatternCategory.CONTENT, "CHECK-021",
                     "No version or date metadata, impossible to assess freshness"),
    AntiPatternEntry(AntiPatternID.AP_STRAT_001, "Automation Obsession",
                     AntiPatternCategory.STRATEGIC, "CHECK-016",
                     "Fully auto-generated with no human curation or review"),
    AntiPatternEntry(AntiPatternID.AP_STRAT_002, "Monolith Monster",
                     AntiPatternCategory.STRATEGIC, "CHECK-017",
                     "Single file exceeding 100K tokens with no decomposition"),
    AntiPatternEntry(AntiPatternID.AP_STRAT_003, "Meta-Documentation Spiral",
                     AntiPatternCategory.STRATEGIC, "CHECK-018",
                     "File documents itself or the llms.txt standard rather than the project"),
    AntiPatternEntry(AntiPatternID.AP_STRAT_004, "Preference Trap",
                     AntiPatternCategory.STRATEGIC, "CHECK-022",
                     "Content crafted to manipulate LLM behavior (trust laundering)")
  >>

---------------------------------------------------------------------------
(* The state machine: the schema is built once at import and never         *)
(* changes; every step is one read of it by a caller.                      *)

Init ==
  /\ op = "import"
  /\ arg = "docstratum.schema"
  /\ ret = Return("None")

\* code.severity for a member of the catalog
ReadSeverity ==
  \E i \in DOMAIN DiagnosticCode :
    /\ op' = "severity"
    /\ arg' = DiagnosticCode[i]
    /\ ret' = severity(DiagnosticCode[i])

\* code.code_number
ReadCodeNumber ==
  \E i \in DOMAIN DiagnosticCode :
    /\ op' = "code_number"
    /\ arg' = DiagnosticCode[i]
    /\ ret' = code_number(DiagnosticCode[i])

\* code.message
ReadMessage ==
  \E i \in DOMAIN DiagnosticCode :
    /\ op' = "message"
    /\ arg' = DiagnosticCode[i]
    /\ ret' = Return(message(DiagnosticCode[i]))

\* code.remediation
ReadRemediation ==
  \E i \in DOMAIN DiagnosticCode :
    /\ op' = "remediation"
    /\ arg' = DiagnosticCode[i]
    /\ ret' = Return(remediation(DiagnosticCode[i]))

\* c.severity == Severity.X, as the filters of the test evaluate it
IsError(c) == severity(c).value = ERROR
IsWarning(c) == severity(c).value = WARNING
IsInfo(c) == severity(c).value = INFO

\* test_diagnostic_code_counts: the three filtered lists and len(DiagnosticCode)
CodeCounts ==
  /\ op' = "code_counts"
  /\ arg' = "DiagnosticCode"
  /\ ret' = LET failing == {i \in DOMAIN DiagnosticCode :
                               severity(DiagnosticCode[i]).raised # ""}
             IN  IF failing # {}
                   THEN severity(DiagnosticCode[CHOOSE i \in failing :
                                                  \A j \in failing : i <= j])
                   ELSE Return([errors |-> Len(SelectSeq(DiagnosticCode, IsError)),
                                warnings |-> Len(SelectSeq(DiagnosticCode, IsWarning)),
                                infos |-> Len(SelectSeq(DiagnosticCode, IsInfo)),
                                total |-> Len(DiagnosticCode)])

\* test_value_format, one member of the loop
ValueFormat ==
  \E i \in DOMAIN DiagnosticCode :
    /\ op' = "value_format"
    /\ arg' = DiagnosticCode[i]
    /\ ret' = Return(ValuePatternMatch(DiagnosticCode[i].value))

\* test_canonical_section_names_count: len(CanonicalSectionName)
SectionCount ==
  /\ op' = "section_count"
  /\ arg' = "CanonicalSectionName"
  /\ ret' = Return(Len(CanonicalSections))

\* test_section_name_aliases_validity, one item of the loop
AliasCheck ==
  \E i \in DOMAIN DictItems(SECTION_NAME_ALIASES) :
    LET item == DictItems(SECTION_NAME_ALIASES)[i]
    IN  /\ op' = "alias"
        /\ arg' = item[1]
        /\ ret' = Return([canonical |-> item[2],
                          lowered |-> lower(item[1]),
                          is_section |-> IsCanonicalSection(item[2])])

\* CANONICAL_SECTION_ORDER[section] for a member of CanonicalSectionName
OrderLookup ==
  \E i \in DOMAIN CanonicalSections :
    /\ op' = "order"
    /\ arg' = CanonicalSections[i].value
    /\ ret' = DictGet(CANONICAL_SECTION_ORDER, CanonicalSections[i].value)

\* test_canonical_section_order
OrderCheck ==
  /\ op' = "order_check"
  /\ arg' = "CANONICAL_SECTION_ORDER"
  /\ ret' = Return([len |-> DictLen(CANONICAL_SECTION_ORDER),
                    optional_in |-> CanonicalSectionName.OPTIONAL
                                      \in DictKeys(CANONICAL_SECTION_ORDER),
                    positions |-> sorted(DictValues(CANONICAL_SECTION_ORDER))])

\* test_token_budget_tiers: the tiers in dict order
TierItems ==
  /\ op' = "tiers"
  /\ arg' = "TOKEN_BUDGET_TIERS"
  /\ ret' = Return(DictItems(TOKEN_BUDGET_TIERS))

\* test_token_zones_ordering: the four thresholds, as the test reads them
ZoneThresholds ==
  /\ op' = "zones"
  /\ arg' = "TOKEN_ZONE"
  /\ ret' = Return(<<TOKEN_ZONE_OPTIMAL, TOKEN_ZONE_GOOD,
                     TOKEN_ZONE_DEGRADATION, TOKEN_ZONE_ANTI_PATTERN>>)

Next ==
  \/ ReadSeverity
  \/ ReadCodeNumber
  \/ ReadMessage
  \/ ReadRemediation
  \/ CodeCounts
  \/ ValueFormat
  \/ SectionCount
  \/ AliasCheck
  \/ OrderLookup
  \/ OrderCheck
  \/ TierItems
  \/ ZoneThresholds

Spec == Init /\ [][Next]_vars

---------------------------------------------------------------------------
(* Reads of the anti-pattern registry and of the docstrings that cite it.  *)

\* lookup(id): the entry of the registry that carries the id.
lookup(id) ==
  LET hits == {i \in DOMAIN ANTI_PATTERN_REGISTRY : ANTI_PATTERN_REGISTRY[i].id = id}
  IN  IF hits = {} THEN Raise(KeyError)
      ELSE Return(ANTI_PATTERN_REGISTRY[CHOOSE i \in hits : \A j \in hits : i <= j])

\* categoryOf(id): the category of the entry that carries the id.
categoryOf(id) ==
  IF lookup(id).raised # "" THEN lookup(id) ELSE Return(lookup(id).value.category)

\* test_anti_pattern_counts: the three lengths the test asserts
RegistryCounts ==
  /\ op' = "registry_counts"
  /\ arg' = "ANTI_PATTERN_REGISTRY"
  /\ ret' = Return([ids |-> Len(AntiPatternIDs),
                    categories |-> Len(AntiPatternCategories),
                    registry |-> Len(ANTI_PATTERN_REGISTRY)])

\* test_anti_pattern_registry_integrity: the duplicate check and one entry
\* of the loop
RegistryIntegrity ==
  \E i \in DOMAIN ANTI_PATTERN_REGISTRY :
    LET entry == ANTI_PATTERN_REGISTRY[i]
        ids == [k \in DOMAIN ANTI_PATTERN_REGISTRY |-> ANTI_PATTERN_REGISTRY[k].id]
    IN  /\ op' = "integrity"
        /\ arg' = entry
        /\ ret' = Return([unique_ids |->
                            Len(ids) = Cardinality({ids[k] : k \in DOMAIN ids}),
                          is_id |-> IsAntiPatternID(entry.id),
                          is_category |-> IsAntiPatternCategory(entry.category),
                          check_prefix |-> startswith(entry.check_id, "CHECK-"),
                          has_description |-> entry.description # ""])

\* ANTI_PATTERN_REGISTRY[index], index counted from 0
RegistryEntry ==
  \E i \in DOMAIN ANTI_PATTERN_REGISTRY :
    /\ op' = "entry"
    /\ arg' = i - 1
    /\ ret' = Return(ANTI_PATTERN_REGISTRY[i])

\* lookup(id) for a member of AntiPatternID
Lookup ==
  \E i \in DOMAIN AntiPatternIDs :
    /\ op' = "lookup"
    /\ arg' = AntiPatternIDs[i].value
    /\ ret' = lookup(AntiPatternIDs[i].value)

\* categoryOf(id) for a member of AntiPatternID
CategoryOf ==
  \E i \in DOMAIN AntiPatternIDs :
    /\ op' = "categoryOf"
    /\ arg' = AntiPatternIDs[i].value
    /\ ret' = categoryOf(AntiPatternIDs[i].value)

\* code.__doc__ for a member of the catalog
ReadDoc ==
  \E i \in DOMAIN DiagnosticCode :
    /\ op' = "doc"
    /\ arg' = DiagnosticCode[i]
    /\ ret' = Return(DiagnosticCode[i].doc)

RegistryNext ==
  \/ RegistryCounts
  \/ RegistryIntegrity
  \/ RegistryEntry
  \/ Lookup
  \/ CategoryOf
  \/ ReadDoc

RegistrySpec == Init /\ [][RegistryNext]_vars

---------------------------------------------------------------------------
(* The classifications of spec sections 4.1 and 4.2 over the tables above: *)
(* each behaviour is one call, its argument drawn at the start.            *)

MaxSeqLen == 3
ZoneMargin == 2
MaxPad == 1

\* zoneFor(tokenCount): the first threshold the count is below names the zone.
zoneFor(tokenCount) ==
  IF tokenCount < TOKEN_ZONE_OPTIMAL THEN "Optimal"
  ELSE IF tokenCount < TOKEN_ZONE_GOOD THEN "Good"
  ELSE IF tokenCount < TOKEN_ZONE_DEGRADATION THEN "Degradation"
  ELSE IF tokenCount < TOKEN_ZONE_ANTI_PATTERN THEN "AntiPattern"
  ELSE "BeyondAllWindows"

\* orderOf(section): the fixed rank, or None for Optional.
orderOf(section) ==
  IF section \in DictKeys(CANONICAL_SECTION_ORDER)
    THEN DictGet(CANONICAL_SECTION_ORDER, section)
    ELSE Return("None")

\* validateSequence(sections): the walk keeps the rank of the last section
\* that is not Optional (0 before the first) and flags a section whose rank
\* is not above it.
RECURSIVE WalkSections(_, _)
WalkSections(sections, last) ==
  IF sections = <<>> THEN FALSE
  ELSE IF Head(sections) = CanonicalSectionName.OPTIONAL
         THEN WalkSections(Tail(sections), last)
  ELSE LET rank == orderOf(Head(sections)).value
       IN  IF rank <= last THEN TRUE
           ELSE WalkSections(Tail(sections), rank)

validateSequence(sections) == WalkSections(sections, 0)

Unresolved == "Unresolved"

\* resolve(rawName): alias table first, then the display values compared
\* without regard to case, else Unresolved.
resolve(rawName) ==
  LET name == strip(lower(rawName))
      same == {i \in DOMAIN CanonicalSections : lower(CanonicalSections[i].value) = name}
  IN  IF name \in DictKeys(SECTION_NAME_ALIASES)
        THEN DictGet(SECTION_NAME_ALIASES, name).value
      ELSE IF same # {}
        THEN CanonicalSections[CHOOSE i \in same : \A j \in same : i <= j].value
      ELSE Unresolved

\* The token counts tried: 0, the counts named in the spec's scenarios, and
\* the counts within ZoneMargin of each threshold.
TokenCounts ==
  {0, 19999, 25000, 100000}
    \cup {t + d : t \in {20000, 50000, 100000, 500000}, d \in 0..ZoneMargin}
    \cup {t - d : t \in {20000, 50000, 100000, 500000}, d \in 0..ZoneMargin}

\* The section sequences tried: every sequence of at most MaxSeqLen sections.
SectionValues == {CanonicalSections[i].value : i \in DOMAIN CanonicalSections}

SectionSequences == UNION {[1..n -> SectionValues] : n \in 0..MaxSeqLen}

\* upper-casing, to build inputs that differ from a name by case only
UpperChar(c) ==
  IF \E i \in 1..Len(LowerCase) : CharAt(LowerCase, i) = c
    THEN CharAt(UpperCase, CHOOSE i \in 1..Len(LowerCase) : CharAt(LowerCase, i) = c)
    ELSE c

RECURSIVE UpperOf(_)
UpperOf(s) == IF Len(s) = 0 THEN s ELSE UpperChar(CharAt(s, 1)) \o UpperOf(Tail(s))

RECURSIVE Blanks(_)
Blanks(n) == IF n = 0 THEN "" ELSE " " \o Blanks(n - 1)

\* The raw names tried: every alias key and display value and two names that
\* are neither, each as written and in upper case, with up to MaxPad blanks
\* on both sides.
BaseNames ==
  DictKeys(SECTION_NAME_ALIASES) \cup SectionValues \cup {"Random Heading", ""}

RawNames ==
  {Blanks(k) \o n \o Blanks(k) :
     n \in BaseNames \cup {UpperOf(b) : b \in BaseNames}, k \in 0..MaxPad}

ClassifyInit ==
  /\ ret = Return("None")
  /\ \/ op = "call zoneFor" /\ arg \in TokenCounts
     \/ op = "call validateSequence" /\ arg \in SectionSequences
     \/ op = "call resolve" /\ arg \in RawNames

ZoneFor ==
  /\ op = "call zoneFor"
  /\ op' = "zoneFor"
  /\ arg' = arg
  /\ ret' = Return(zoneFor(arg))

ValidateSequence ==
  /\ op = "call validateSequence"
  /\ op' = "validateSequence"
  /\ arg' = arg
  /\ ret' = Return([violation |-> validateSequence(arg)])

Resolve ==
  /\ op = "call resolve"
  /\ op' = "resolve"
  /\ arg' = arg
  /\ ret' = Return(resolve(arg))

ClassifyNext ==
  \/ ZoneFor
  \/ ValidateSequence
  \/ Resolve

ClassifySpec == ClassifyInit /\ [][ClassifyNext]_vars

---------------------------------------------------------------------------
(* Properties of the schema.                                               *)

\* The docstring a declaration of DiagnosticCode carries, by member name.
DeclaredDoc(name) ==
  (CHOOSE d \in {DiagnosticCodeDecl[i] : i \in DOMAIN DiagnosticCodeDecl} :
     d.name = name).doc

\* The text of d from position p up to, not including, the next line break.
LineFrom(d, p) ==
  LET breaks == {q \in p..Len(d) : CharAt(d, q) = "\n"}
  IN  IF breaks = {} THEN SubSeq(d, p, Len(d))
      ELSE SubSeq(d, p, (CHOOSE q \in breaks : \A r \in breaks : q <= r) - 1)

\* C1: the catalog has exactly 26 members, and filtering them by derived
\* severity gives exactly 8 Error, 11 Warning and 7 Info codes.
C1_CatalogCounts ==
  op = "code_counts" =>
    /\ ret.raised = ""
    /\ ret.value = [errors |-> 8, warnings |-> 11, infos |-> 7, total |-> 26]

C1_Witness ==
  op = "code_counts" /\ ret.raised = "" /\ ret.value.total = 26

\* C2: every member's value is one letter of E, W, I followed by exactly
\* three decimal digits, and no two members share a value (no declaration
\* of the class body collapsed into an alias of an earlier one).
C2_IdentifierFormat ==
  /\ op = "value_format" =>
       /\ ret.raised = ""
       /\ ret.value = TRUE
       /\ Len(arg.value) = 4
       /\ CharAt(arg.value, 1) \in {"E", "W", "I"}
       /\ \A k \in 2..4 : CharAt(arg.value, k) \in
            {"0", "1", "2", "3", "4", "5", "6", "7", "8", "9"}
  /\ Len(DiagnosticCode) = Len(DiagnosticCodeDecl)
  /\ \A i, j \in DOMAIN DiagnosticCode :
       DiagnosticCode[i].value = DiagnosticCode[j].value => i = j

C2_Witness ==
  op = "value_format" /\ arg.value = "W011" /\ ret.value = TRUE

\* C3: severity never fails on a member, is Error, Warning or Info as the
\* first character of the value is E, W or I, and is the same for any two
\* members with the same first character, whatever their digits and text.
C3_SeverityByPrefix ==
  op = "severity" =>
    /\ ret.raised = ""
    /\ ret.value = (CASE CharAt(arg.value, 1) = "E" -> ERROR
                      [] CharAt(arg.value, 1) = "W" -> WARNING
                      [] CharAt(arg.value, 1) = "I" -> INFO
                      [] OTHER -> "")
    /\ \A i \in DOMAIN DiagnosticCode :
         CharAt(DiagnosticCode[i].value, 1) = CharAt(arg.value, 1)
           => severity(DiagnosticCode[i]) = ret

C3_Witness ==
  op = "severity" /\ arg.value = "I007" /\ ret.raised = "" /\ ret.value = INFO

\* C4: code_number is the value's three trailing digits read in base 10
\* (E001 gives 1, E008 gives 8, W011 gives 11, I007 gives 7), and two
\* members with the same digits get the same number whatever their prefix.
C4_CodeNumber ==
  op = "code_number" =>
    /\ ret.raised = ""
    /\ ret.value = 100 * DigitValue(CharAt(arg.value, 2))
                   + 10 * DigitValue(CharAt(arg.value, 3))
                   + DigitValue(CharAt(arg.value, 4))
    /\ arg.value = "E001" => ret.value = 1
    /\ arg.value = "E008" => ret.value = 8
    /\ arg.value = "W011" => ret.value = 11
    /\ arg.value = "I007" => ret.value = 7
    /\ \A i \in DOMAIN DiagnosticCode :
         SubSeq(DiagnosticCode[i].value, 2, 4) = SubSeq(arg.value, 2, 4)
           => code_number(DiagnosticCode[i]) = ret

C4_Witness ==
  op = "code_number" /\ arg.value = "W011" /\ ret.raised = "" /\ ret.value = 11

\* C5: message is non-empty, holds no line break, and is the first line of
\* the docstring the member was declared with, not the fallback text
\* "Diagnostic <value>".
C5_Message ==
  op = "message" =>
    LET d == DeclaredDoc(arg.name)
        m == ret.value
    IN  /\ ret.raised = ""
        /\ m # ""
        /\ \A k \in 1..Len(m) : CharAt(m, k) # "\n"
        /\ startswith(d, m)
        /\ Len(d) = Len(m) \/ CharAt(d, Len(m) + 1) = "\n"
        /\ ~startswith(m, "Diagnostic ")
        /\ m # "Diagnostic " \o arg.value

C5_Witness ==
  /\ op = "message"
  /\ arg.value = "E007"
  /\ ret.value = "File is empty or contains only whitespace."

\* C6: remediation is non-empty, is not the sentinel "No remediation
\* available.", and is the text that follows a "Remediation:" label in the
\* docstring the member was declared with, up to the end of that line, with
\* the surrounding blanks removed.
C6_Remediation ==
  op = "remediation" =>
    LET d == DeclaredDoc(arg.name)
        label == "Remediation:"
    IN  /\ ret.raised = ""
        /\ ret.value # ""
        /\ ret.value # "No remediation available."
        /\ \E p \in 1..(Len(d) - Len(label) + 1) :
             /\ SubSeq(d, p, p + Len(label) - 1) = label
             /\ strip(LineFrom(d, p + Len(label))) = ret.value

C6_Witness ==
  /\ op = "remediation"
  /\ arg.value = "E007"
  /\ ret.value = "Add content to the file. At minimum: H1 title, blockquote, one H2 section."

\* C7: there are exactly 11 canonical sections; CANONICAL_SECTION_ORDER has
\* exactly 10 keys, Optional is not one of them, its ranks sorted are
\* 1, 2, ..., 10, and a lookup finds a rank for every section but Optional.
C7_SectionOrder ==
  /\ op = "section_count" => ret.raised = "" /\ ret.value = 11
  /\ op = "order_check" =>
       /\ ret.raised = ""
       /\ ret.value = [len |-> 10, optional_in |-> FALSE,
                       positions |-> <<1, 2, 3, 4, 5, 6, 7, 8, 9, 10>>]
  /\ op = "order" =>
       /\ arg = "Optional" <=> ret.raised = KeyError
       /\ arg # "Optional" => ret.raised = "" /\ ret.value \in 1..10

C7_Witness ==
  op = "order" /\ arg = "Optional" /\ ret.raised = KeyError

\* C8: every key of SECTION_NAME_ALIASES is unchanged by lower-casing, and
\* every value is one of the 11 members of CanonicalSectionName.
C8_AliasTable ==
  op = "alias" =>
    /\ ret.raised = ""
    /\ ret.value.lowered = arg
    /\ ret.value.is_section
    /\ ret.value.canonical \in
         {CanonicalSectionNameDecl[i].value : i \in DOMAIN CanonicalSectionNameDecl}
    /\ Len(CanonicalSectionNameDecl) = 11

C8_Witness ==
  /\ op = "alias"
  /\ arg = "frequently asked questions"
  /\ ret.value.canonical = "FAQ"
  /\ ret.value.lowered = arg

\* C9: TOKEN_BUDGET_TIERS holds exactly 3 tiers, in the order standard,
\* comprehensive, full; each has min_tokens < max_tokens, and each tier's
\* max_tokens is the next tier's min_tokens.
C9_TierContiguity ==
  op = "tiers" =>
    LET t == ret.value
    IN  /\ ret.raised = ""
        /\ Len(t) = 3
        /\ <<t[1][1], t[2][1], t[3][1]>> = <<"standard", "comprehensive", "full">>
        /\ \A i \in 1..3 : t[i][2].min_tokens < t[i][2].max_tokens
        /\ \A i \in 1..2 : t[i][2].max_tokens = t[i + 1][2].min_tokens

C9_Witness ==
  /\ op = "tiers"
  /\ ret.value[1][2].max_tokens = 4500
  /\ ret.value[2][2].min_tokens = 4500
  /\ ret.value[2][2].max_tokens = 12000
  /\ ret.value[3][2].min_tokens = 12000

\* C10: the four zone thresholds are 20,000, 50,000, 100,000 and 500,000,
\* each strictly below the next.
C10_ZonesIncreasing ==
  op = "zones" =>
    /\ ret.raised = ""
    /\ ret.value = <<20000, 50000, 100000, 500000>>
    /\ \A i \in 1..3 : ret.value[i] < ret.value[i + 1]

C10_Witness ==
  op = "zones" /\ Len(ret.value) = 4 /\ ret.value[1] < ret.value[4]

\* The number of registry entries whose category is cat.
EntriesIn(cat) ==
  Cardinality({i \in DOMAIN ANTI_PATTERN_REGISTRY : ANTI_PATTERN_REGISTRY[i].category = cat})

\* C11: the registry has 22 entries with 22 pairwise distinct ids, each an
\* AntiPatternID; every one of the 22 AntiPatternID values is carried by
\* exactly one entry, which lookup returns; the categories hold 4 Critical,
\* 5 Structural, 9 Content and 4 Strategic entries.
C11_RegistryIds ==
  /\ op = "registry_counts" =>
       /\ ret.raised = ""
       /\ ret.value = [ids |-> 22, categories |-> 4, registry |-> 22]
       /\ EntriesIn("critical") = 4
       /\ EntriesIn("structural") = 5
       /\ EntriesIn("content") = 9
       /\ EntriesIn("strategic") = 4
  /\ op = "integrity" =>
       ret.raised = "" /\ ret.value.unique_ids /\ ret.value.is_id
  /\ op = "lookup" =>
       /\ ret.raised = ""
       /\ ret.value.id = arg
       /\ Cardinality({i \in DOMAIN ANTI_PATTERN_REGISTRY :
                         ANTI_PATTERN_REGISTRY[i].id = arg}) = 1

C11_Witness ==
  op = "lookup" /\ arg = "AP-STRAT-004" /\ ret.raised = ""
    /\ ret.value.name = "Preference Trap"

\* C12: every registry entry's check reference is "CHECK-" followed by
\* exactly three decimal digits, and its description is not empty.
C12_CheckReference ==
  op = "integrity" =>
    /\ ret.raised = ""
    /\ ret.value.check_prefix
    /\ ret.value.has_description
    /\ Len(arg.check_id) = 9
    /\ SubSeq(arg.check_id, 1, 6) = "CHECK-"
    /\ \A k \in 7..9 : CharAt(arg.check_id, k) \in
         {"0", "1", "2", "3", "4", "5", "6", "7", "8", "9"}
    /\ Len(arg.description) > 0

C12_Witness ==
  op = "integrity" /\ arg.check_id = "CHECK-022" /\ ret.value.check_prefix

\* The anti-pattern citations of the diagnostic docstrings: the code, the
\* check reference it names and the anti-pattern name it gives for it.
CitedChecks ==
  { [code |-> "E006", check |-> "CHECK-004", name |-> "Ghost File"],
    [code |-> "E007", check |-> "CHECK-001", name |-> "Ghost File"],
    [code |-> "E008", check |-> "CHECK-003", name |-> "Monolith Monster"],
    [code |-> "W003", check |-> "CHECK-010", name |-> "Link Desert"],
    [code |-> "W006", check |-> "CHECK-015", name |-> "Formulaic Description"],
    [code |-> "W011", check |-> "CHECK-011", name |-> "Blank Canvas"] }

\* doc holds the citation "<check> (v0.0.4c <name>".
Cites(doc, check, name) ==
  LET text == check \o " (v0.0.4c " \o name
  IN  \E p \in 1..(Len(doc) - Len(text) + 1) :
        SubSeq(doc, p, p + Len(text) - 1) = text

\* The display names the registry gives to the entries with a check reference.
RegistryNames(check) ==
  {ANTI_PATTERN_REGISTRY[i].name :
     i \in {k \in DOMAIN ANTI_PATTERN_REGISTRY : ANTI_PATTERN_REGISTRY[k].check_id = check}}

\* C17: when a diagnostic docstring cites a check reference with an
\* anti-pattern name, the registry entry carrying that check reference has
\* that display name.
C17_CrossReference ==
  op = "doc" =>
    \A t \in CitedChecks :
      (t.code = arg.value /\ Cites(ret.value, t.check, t.name))
        => RegistryNames(t.check) = {t.name}

\* The six citations are in the docstrings as listed.
C17_CitationsPresent ==
  op = "doc" =>
    \A t \in CitedChecks : t.code = arg.value => Cites(ret.value, t.check, t.name)

\* The category an id's infix stands for.
InfixCategory(id) ==
  LET parts == split(id, "-")
  IN  IF Len(parts) # 3 \/ parts[1] # "AP" THEN "none"
      ELSE CASE parts[2] = "CRIT" -> "critical"
             [] parts[2] = "STRUCT" -> "structural"
             [] parts[2] = "CONT" -> "content"
             [] parts[2] = "STRAT" -> "strategic"
             [] OTHER -> "none"

\* C18: every registry entry's category is the one its id's infix stands
\* for (CRIT, STRUCT, CONT, STRAT), and the entry at each position carries
\* the id that AntiPatternID declares at that position.
C18_CategoryInfix ==
  op = "entry" =>
    /\ ret.raised = ""
    /\ ret.value.category = InfixCategory(ret.value.id)
    /\ Len(ANTI_PATTERN_REGISTRY) = Len(AntiPatternIDs)
    /\ ret.value.id = AntiPatternIDs[arg + 1].value

C18_Witness ==
  op = "entry" /\ arg = 9 /\ ret.value.id = "AP-CONT-001"
    /\ ret.value.category = "content"

ZoneRank(zone) ==
  CASE zone = "Optimal" -> 1
    [] zone = "Good" -> 2
    [] zone = "Degradation" -> 3
    [] zone = "AntiPattern" -> 4
    [] zone = "BeyondAllWindows" -> 5
    [] OTHER -> 0

\* C14: zoneFor puts every count into exactly one zone: below 20,000
\* Optimal, else below 50,000 Good, else below 100,000 Degradation, else
\* below 500,000 AntiPattern, else BeyondAllWindows; zoneFor(19999) is
\* Optimal, zoneFor(25000) is Good, zoneFor(100000) is AntiPattern; and a
\* larger count never gets a lower zone.
C14_ZoneFor ==
  op = "zoneFor" =>
    /\ ret.raised = ""
    /\ ret.value = (IF arg < 20000 THEN "Optimal"
                    ELSE IF arg < 50000 THEN "Good"
                    ELSE IF arg < 100000 THEN "Degradation"
                    ELSE IF arg < 500000 THEN "AntiPattern"
                    ELSE "BeyondAllWindows")
    /\ arg = 19999 => ret.value = "Optimal"
    /\ arg = 25000 => ret.value = "Good"
    /\ arg = 100000 => ret.value = "AntiPattern"
    /\ \A c \in TokenCounts :
         c >= arg => ZoneRank(zoneFor(c)) >= ZoneRank(ret.value)

C14_Witness ==
  op = "zoneFor" /\ arg = 100000 /\ ret.value = "AntiPattern"

NotOptional(section) == section # "Optional"

\* The rank CANONICAL_SECTION_ORDER gives a section other than Optional.
RankOf(section) == DictGet(CANONICAL_SECTION_ORDER, section).value

\* C15: validateSequence reports a violation exactly when, with the Optional
\* entries left out, some entry's rank is not strictly below the rank of the
\* entry after it; [Getting Started, Master Index] is a violation and
\* [Master Index, Optional, Getting Started] is not.
C15_ValidateSequence ==
  op = "validateSequence" =>
    LET kept == SelectSeq(arg, NotOptional)
    IN  /\ ret.raised = ""
        /\ ret.value.violation =
             (\E i \in 1..(Len(kept) - 1) : ~(RankOf(kept[i]) < RankOf(kept[i + 1])))
        /\ arg = <<"Getting Started", "Master Index">> => ret.value.violation
        /\ arg = <<"Master Index", "Optional", "Getting Started">>
             => ~ret.value.violation

C15_Witness ==
  /\ op = "validateSequence"
  /\ arg = <<"Master Index", "Optional", "Getting Started">>
  /\ ~ret.value.violation

\* C16: resolve never fails; with name the raw name lower-cased and
\* trimmed, it returns the alias table's section when name is an alias key,
\* otherwise the section whose display value lower-cased is name, otherwise
\* Unresolved; "quickstart", also in upper case or between blanks, resolves
\* to Getting Started, and "Random Heading" to Unresolved.
C16_Resolve ==
  op = "resolve" =>
    LET name == strip(lower(arg))
        sections == {v \in SectionValues : lower(v) = name}
    IN  /\ ret.raised = ""
        /\ name \in DictKeys(SECTION_NAME_ALIASES)
             => ret.value = DictGet(SECTION_NAME_ALIASES, name).value
        /\ (name \notin DictKeys(SECTION_NAME_ALIASES) /\ sections # {})
             => ret.value \in sections
        /\ (name \notin DictKeys(SECTION_NAME_ALIASES) /\ sections = {})
             => ret.value = Unresolved
        /\ arg \in {"quickstart", "QUICKSTART", " quickstart ", " QUICKSTART "}
             => ret.value = "Getting Started"
        /\ arg \in {"faq", "FAQ", " FAQ "} => ret.value = "FAQ"
        /\ arg = "Random Heading" => ret.value = Unresolved

C16_Witness ==
  op = "resolve" /\ arg = " QUICKSTART " /\ ret.value = "Getting Started"

=============================================================================
